---- MODULE Spec2Model ----
(***************************************************************************)
(* A model of src/unify_arrow.py: the path tokenizer/sampler, the path     *)
(* classifier, the Ramer-Douglas-Peucker simplifier with its dedup         *)
(* pre-pass, and the symmetry reconstructor.                               *)
(*                                                                         *)
(* Coordinates are exact fixed-point numbers.  Each component states the   *)
(* unit it holds coordinates in; a distance is held as the exact fraction  *)
(* of its square, so that every comparison of the code is decided exactly. *)
(***************************************************************************)
EXTENDS Integers, Sequences, FiniteSets, TLC

VARIABLES
    comp,        \* which function of the script is being exercised
    pc,          \* position inside that function's run
    \* ---- simplifier (simplify_points, ramer_douglas_peucker)
    points,      \* the point sequence given to the simplifier
    epsilon,     \* the tolerance
    dedup,       \* simplify_points' local list `dedup`
    result,      \* what the first call returned
    result2,     \* what the call on `result` returned
    \* ---- symmetry reconstructor (symmetrize_arrow)
    sym_points,  \* the polygon given to symmetrize_arrow
    sym_locals,  \* its locals when it returns
    sym_final,   \* what it returned
    \* ---- path tokenizer and sampler (parse_svg_paths_basic)
    tokens,      \* the tokens of d_str the iterator has handed out
    polygons,
    current_poly,
    current_pos,
    start_pos,
    \* ---- path classifier (extract_paths_from_file)
    n_paths,     \* how many <path .../> matches the loop has taken
    attrs,       \* the attributes of the match being classified
    box,         \* the loop's locals w, h, cx, cy, ratio, is_dot for that match
    dots,
    arrows

simplifyVars == <<points, epsilon, dedup, result, result2>>
symVars == <<sym_points, sym_locals, sym_final>>
parseVars == <<tokens, polygons, current_poly, current_pos, start_pos>>
extractVars == <<n_paths, attrs, box, dots, arrows>>
vars == <<comp, pc, simplifyVars, symVars, parseVars, extractVars>>

(***************************************************************************)
(* Bounds of the model.                                                    *)
(***************************************************************************)
MaxLen == 4
MaxSymLen == 4
MaxArm == 2
MantissaBits == 3
MaxTokens == 7
MaxPaths == 2

Abs(n) == IF n < 0 THEN -n ELSE n

Last(s) == s[Len(s)]

(***************************************************************************)
(* Simplifier.  Coordinates are in eighths: 0.5 is 4, 2.0 is 16.           *)
(***************************************************************************)
SimplifyXs == {0, 3, 5}
SimplifyYs == {-3, 0, 4}
SimplifyPoints == SimplifyXs \X SimplifyYs
Tolerances == {0, 3, 16}

\* 0.5 units, the dedup distance of simplify_points
DedupDist == 4

\* The square of a distance as an exact fraction n/d (d > 0).
Frac(n, d) == [n |-> n, d |-> d]
Gt(a, b) == a.n * b.d > b.n * a.d
Zero == Frac(0, 1)
OfNumber(e) == Frac(e * e, 1)

\* np.hypot(dx, dy), squared
hypot(dx, dy) == Frac(dx * dx + dy * dy, 1)

perpendicular_distance(point, start, end) ==
    IF start = end
    THEN hypot(point[1] - start[1], point[2] - start[2])
    ELSE LET x0 == point[1]
             y0 == point[2]
             x1 == start[1]
             y1 == start[2]
             x2 == end[1]
             y2 == end[2]
             num == Abs((y2 - y1) * x0 - (x2 - x1) * y0 + x2 * y1 - y2 * x1)
             den == hypot(x2 - x1, y2 - y1)
         IN  Frac(num * num, den.n)

\* FarthestFrom with the loop over range(1, end - 1): the last interior
\* point is never looked at
RECURSIVE FarthestFromSkipLast(_, _, _, _)
FarthestFromSkipLast(pts, i, index, dmax) ==
    IF i >= Len(pts) - 1
    THEN <<index, dmax>>
    ELSE LET d == perpendicular_distance(pts[i], pts[1], pts[Len(pts)])
         IN  IF Gt(d, dmax)
             THEN FarthestFromSkipLast(pts, i + 1, i, d)
             ELSE FarthestFromSkipLast(pts, i + 1, index, dmax)

\* FarthestFrom with the loop over range(2, end): the first interior point
\* is never looked at
RECURSIVE FarthestFromSkipFirst(_, _, _, _)
FarthestFromSkipFirst(pts, i, index, dmax) ==
    IF i >= Len(pts)
    THEN <<index, dmax>>
    ELSE LET d == perpendicular_distance(pts[i], pts[1], pts[Len(pts)])
         IN  IF i > 2 /\ Gt(d, dmax)
             THEN FarthestFromSkipFirst(pts, i + 1, i, d)
             ELSE FarthestFromSkipFirst(pts, i + 1, index, dmax)

\* The loop of ramer_douglas_peucker over i in range(1, end): the pair
\* (index, dmax) after it.  Indices are 1-based: i runs over 2..Len(pts)-1.
RECURSIVE FarthestFrom(_, _, _, _)
FarthestFrom(pts, i, index, dmax) ==
    IF i >= Len(pts)
    THEN <<index, dmax>>
    ELSE LET d == perpendicular_distance(pts[i], pts[1], pts[Len(pts)])
         IN  IF Gt(d, dmax)
             THEN FarthestFrom(pts, i + 1, i, d)
             ELSE FarthestFrom(pts, i + 1, index, dmax)

\* ramer_douglas_peucker keeping the split point of both halves
RECURSIVE RdpKeepingBothSplitPoints(_, _)
RdpKeepingBothSplitPoints(pts, eps) ==
    LET far == FarthestFrom(pts, 2, 1, Zero)
        index == far[1]
        dmax == far[2]
    IN  IF Gt(dmax, OfNumber(eps))
        THEN RdpKeepingBothSplitPoints(SubSeq(pts, 1, index), eps)
                 \o RdpKeepingBothSplitPoints(SubSeq(pts, index, Len(pts)), eps)
        ELSE <<pts[1], pts[Len(pts)]>>

RECURSIVE ramer_douglas_peucker(_, _)
ramer_douglas_peucker(pts, eps) ==
    LET far == FarthestFrom(pts, 2, 1, Zero)
        index == far[1]
        dmax == far[2]
    IN  IF Gt(dmax, OfNumber(eps))
        THEN LET rec_results1 == ramer_douglas_peucker(SubSeq(pts, 1, index), eps)
                 rec_results2 == ramer_douglas_peucker(SubSeq(pts, index, Len(pts)), eps)
             IN  SubSeq(rec_results1, 1, Len(rec_results1) - 1) \o rec_results2
        ELSE <<pts[1], pts[Len(pts)]>>

\* hypot(p - q) > 0.5
FartherThanDedup(p, q) == Gt(hypot(p[1] - q[1], p[2] - q[2]), OfNumber(DedupDist))

\* The loop `for p in points[1:]` of simplify_points, from 1-based position i.
RECURSIVE DedupLoop(_, _, _)
DedupLoop(pts, i, acc) ==
    IF i > Len(pts)
    THEN acc
    ELSE IF FartherThanDedup(pts[i], Last(acc))
         THEN DedupLoop(pts, i + 1, Append(acc, pts[i]))
         ELSE DedupLoop(pts, i + 1, acc)

\* The list `dedup` that simplify_points hands to ramer_douglas_peucker.
Dedup(pts) ==
    LET looped == DedupLoop(pts, 2, <<pts[1]>>)
    IN  IF FartherThanDedup(Last(pts), Last(looped))
        THEN Append(looped, Last(pts))
        ELSE looped

simplify_points(pts, tolerance) == ramer_douglas_peucker(Dedup(pts), tolerance)

RECURSIVE SeqsUpTo(_, _)
SeqsUpTo(S, n) ==
    IF n = 0 THEN {<<>>}
    ELSE LET shorter == SeqsUpTo(S, n - 1)
         IN  shorter \cup {Append(s, x) : s \in {t \in shorter : Len(t) = n - 1}, x \in S}

SimplifyIdle ==
    /\ points = <<>>
    /\ epsilon = 0
    /\ dedup = <<>>
    /\ result = <<>>
    /\ result2 = <<>>

ParseIdle ==
    /\ tokens = <<>>
    /\ polygons = <<>>
    /\ current_poly = <<>>
    /\ current_pos = <<0, 0>>
    /\ start_pos = <<0, 0>>

ExtractIdle ==
    /\ n_paths = 0
    /\ attrs = <<>>
    /\ box = <<>>
    /\ dots = <<>>
    /\ arrows = <<>>

SymIdle ==
    /\ sym_points = <<>>
    /\ sym_locals = <<>>
    /\ sym_final = <<>>

InitSimplify ==
    /\ comp = "simplify"
    /\ pc = "start"
    /\ points \in SeqsUpTo(SimplifyPoints, MaxLen) \ {<<>>}
    /\ epsilon \in Tolerances
    /\ dedup = <<>>
    /\ result = <<>>
    /\ result2 = <<>>
    /\ SymIdle
    /\ ParseIdle
    /\ ExtractIdle

\* ramer_douglas_peucker(points, epsilon), called on the input as it is
CallRDP ==
    /\ comp = "simplify" /\ pc = "start"
    /\ result' = ramer_douglas_peucker(points, epsilon)
    /\ pc' = "rdp"
    /\ UNCHANGED <<comp, points, epsilon, dedup, result2, symVars, parseVars, extractVars>>

\* ramer_douglas_peucker on its own result
CallRDPAgain ==
    /\ comp = "simplify" /\ pc = "rdp"
    /\ result2' = ramer_douglas_peucker(result, epsilon)
    /\ pc' = "rdp2"
    /\ UNCHANGED <<comp, points, epsilon, dedup, result, symVars, parseVars, extractVars>>

\* simplify_points(points, tolerance), as main calls it
CallSimplify ==
    /\ comp = "simplify" /\ pc = "start"
    /\ dedup' = Dedup(points)
    /\ result' = simplify_points(points, epsilon)
    /\ pc' = "simplified"
    /\ UNCHANGED <<comp, points, epsilon, result2, symVars, parseVars, extractVars>>

\* simplify_points on its own result
CallSimplifyAgain ==
    /\ comp = "simplify" /\ pc = "simplified"
    /\ dedup' = Dedup(result)
    /\ result2' = simplify_points(result, epsilon)
    /\ pc' = "simplified2"
    /\ UNCHANGED <<comp, points, epsilon, result, symVars, parseVars, extractVars>>

NextSimplify == CallRDP \/ CallRDPAgain \/ CallSimplify \/ CallSimplifyAgain

SpecSimplify == InitSimplify /\ [][NextSimplify]_vars

(***************************************************************************)
(* Symmetry reconstructor.  Coordinates are in tenths: 0.1 is 1, 0.5 is 5. *)
(* Here the code computes new coordinates (2*axis_y - y), so the rounding  *)
(* of its floating-point arithmetic shows in what it returns.  A float is  *)
(* modelled as an integer of at most MantissaBits significant bits, and    *)
(* every sum and difference is rounded to the nearest one, ties to even.   *)
(* Doubling a float is exact.                                              *)
(***************************************************************************)
SymXs == {0, 1, 2}
SymYs == {0, 1, 3, 7}
SymPoints == SymXs \X SymYs

\* 0.1 units: how far below the axis the walk along the top arm may go
CrossTol == 1
\* 0.5 units: the loose tolerance of the geometric filter
LooseTol == 5

Reverse(s) == [i \in 1 .. Len(s) |-> s[Len(s) + 1 - i]]

RECURSIVE Pow2(_)
Pow2(k) == IF k = 0 THEN 1 ELSE 2 * Pow2(k - 1)

\* The spacing of the floats around x
RECURSIVE Quantum(_, _)
Quantum(x, q) == IF Abs(x) < Pow2(MantissaBits) * q THEN q ELSE Quantum(x, 2 * q)

\* x rounded to the nearest float, ties to the even significand
Fl(x) ==
    LET q == Quantum(x, 1)
        lo == (x \div q) * q
        r == x - lo
    IN  IF 2 * r < q THEN lo
        ELSE IF 2 * r > q THEN lo + q
        ELSE IF (lo \div q) % 2 = 0 THEN lo ELSE lo + q

\* The loop `for p in points[1:]` building unique_points, from position i.
RECURSIVE UniqueLoop(_, _, _)
UniqueLoop(pts, i, acc) ==
    IF i > Len(pts)
    THEN acc
    ELSE IF pts[i] # Last(acc)
         THEN UniqueLoop(pts, i + 1, Append(acc, pts[i]))
         ELSE UniqueLoop(pts, i + 1, acc)

UniquePoints(pts) ==
    IF Len(pts) > 0 THEN UniqueLoop(pts, 2, <<pts[1]>>) ELSE <<>>

\* max(range(len(unique_points)), key=x): the first position of maximum x
TipIdx(unique_points) ==
    CHOOSE i \in 1 .. Len(unique_points) :
        /\ \A j \in 1 .. Len(unique_points) : unique_points[j][1] <= unique_points[i][1]
        /\ \A j \in 1 .. i - 1 : unique_points[j][1] < unique_points[i][1]

Rotate(unique_points, tip_idx) ==
    SubSeq(unique_points, tip_idx, Len(unique_points))
        \o SubSeq(unique_points, 1, tip_idx - 1)

\* WalkUntilCross stopping at the axis itself, without the 0.1 tolerance
RECURSIVE WalkUntilAxis(_, _, _)
WalkUntilAxis(walk, i, axis_y) ==
    IF i > Len(walk) \/ walk[i][2] >= axis_y
    THEN <<>>
    ELSE <<walk[i]>> \o WalkUntilAxis(walk, i + 1, axis_y)

\* The loops `for p in ...: if p[1] > axis_y + 0.1: break; append(p)`
RECURSIVE WalkUntilCross(_, _, _)
WalkUntilCross(walk, i, axis_y) ==
    IF i > Len(walk) \/ walk[i][2] > Fl(axis_y + CrossTol)
    THEN <<>>
    ELSE <<walk[i]>> \o WalkUntilCross(walk, i + 1, axis_y)

\* sorted(candidates, key=lambda p: -p[0]): stable, by descending x
RECURSIVE SortedByDescX(_)
SortedByDescX(s) ==
    IF Len(s) = 0 THEN <<>>
    ELSE LET i == CHOOSE k \in 1 .. Len(s) :
                      /\ \A j \in 1 .. Len(s) : s[j][1] <= s[k][1]
                      /\ \A j \in 1 .. k - 1 : s[j][1] < s[k][1]
         IN  <<s[i]>> \o SortedByDescX(SubSeq(s, 1, i - 1) \o SubSeq(s, i + 1, Len(s)))

\* The geometric filter of the fallback branch
GeometricFilter(unique_points, tip, axis_y) ==
    LET candidates == SelectSeq(unique_points, LAMBDA p : p[2] <= Fl(axis_y + LooseTol))
    IN  SelectSeq(SortedByDescX(candidates), LAMBDA p : p # tip)

\* The top arm as collected, before the notch is forced onto the axis
CollectTop(unique_points, rotated, forward_is_top, backward_is_top, tip, axis_y) ==
    IF forward_is_top
    THEN WalkUntilCross(SubSeq(rotated, 2, Len(rotated)), 1, axis_y)
    ELSE IF backward_is_top
         THEN WalkUntilCross(Reverse(SubSeq(rotated, 1, Len(rotated) - 1)), 1, axis_y)
         ELSE GeometricFilter(unique_points, tip, axis_y)

\* ConstructMirror leaving the notch where the walk found it
ConstructMirrorLooseNotch(tip, axis_y, collected) ==
    LET shared == SubSeq(collected, 1, Len(collected) - 1)
        bottom_points == [i \in 1 .. Len(shared) |->
                             <<Reverse(shared)[i][1], Fl(2 * axis_y - Reverse(shared)[i][2])>>]
    IN  <<tip>> \o collected \o bottom_points \o <<tip>>

\* Steps 3 and the end of symmetrize_arrow: notch, mirror, closed loop
ConstructMirror(tip, axis_y, collected) ==
    LET notch == <<Last(collected)[1], axis_y>>
        top_points == [collected EXCEPT ![Len(collected)] = notch]
        shared == SubSeq(top_points, 1, Len(top_points) - 1)
        bottom_points == [i \in 1 .. Len(shared) |->
                             <<Reverse(shared)[i][1], Fl(2 * axis_y - Reverse(shared)[i][2])>>]
    IN  <<tip>> \o top_points \o bottom_points \o <<tip>>

\* symmetrize_arrow with the locals it held when it returned
SymmetrizeRun(pts) ==
    LET unique_points == UniquePoints(pts)
    IN  IF Len(unique_points) = 0
        THEN [returned |-> "empty", final |-> pts]
        ELSE LET tip_idx == TipIdx(unique_points)
                 tip == unique_points[tip_idx]
                 axis_y == tip[2]
                 rotated == Rotate(unique_points, tip_idx)
                 p_next == IF Len(rotated) > 1 THEN rotated[2] ELSE rotated[1]
                 p_prev == Last(rotated)
                 forward_is_top == p_next[2] < axis_y
                 backward_is_top == p_prev[2] < axis_y
                 collected == CollectTop(unique_points, rotated, forward_is_top,
                                         backward_is_top, tip, axis_y)
                 locals == [tip |-> tip, axis_y |-> axis_y, rotated |-> rotated,
                            forward_is_top |-> forward_is_top,
                            backward_is_top |-> backward_is_top,
                            top_points |-> collected]
             IN  IF Len(collected) = 0
                 THEN locals @@ [returned |-> "fail_safe", final |-> pts]
                 ELSE locals @@ [returned |-> "mirrored",
                                 final |-> ConstructMirror(tip, axis_y, collected)]

symmetrize_arrow(pts) == SymmetrizeRun(pts).final

\* A perfectly symmetric chevron: tip, top arm, notch on the axis, the top
\* arm mirrored in reverse order, tip.
Mirrored(arm, axis_y) ==
    [i \in 1 .. Len(arm) |-> <<Reverse(arm)[i][1], Fl(2 * axis_y - Reverse(arm)[i][2])>>]

Chevron(tip, arm, notch_x) ==
    <<tip>> \o arm \o <<<<notch_x, tip[2]>>>> \o Mirrored(arm, tip[2]) \o <<tip>>

ChevronTips == {<<2, 3>>, <<2, 5>>}
ChevronHeights == {1, 3}
ChevronArms(tip) ==
    SeqsUpTo({<<x, tip[2] - h>> : x \in {0, 1}, h \in ChevronHeights}, MaxArm)
Chevrons ==
    UNION {{Chevron(tip, arm, notch_x) : arm \in ChevronArms(tip), notch_x \in {0, 1}} :
              tip \in ChevronTips}

InitSymmetrize ==
    /\ comp = "symmetrize"
    /\ pc = "start"
    /\ sym_points \in SeqsUpTo(SymPoints, MaxSymLen) \cup Chevrons
    /\ sym_locals = <<>>
    /\ sym_final = <<>>
    /\ SimplifyIdle
    /\ ParseIdle
    /\ ExtractIdle

\* symmetrize_arrow(points)
CallSymmetrize ==
    /\ comp = "symmetrize" /\ pc = "start"
    /\ sym_locals' = SymmetrizeRun(sym_points)
    /\ sym_final' = symmetrize_arrow(sym_points)
    /\ pc' = "returned"
    /\ UNCHANGED <<comp, sym_points, simplifyVars, parseVars, extractVars>>

NextSymmetrize == CallSymmetrize

SpecSymmetrize == InitSymmetrize /\ [][NextSymmetrize]_vars

(***************************************************************************)
(* Path tokenizer and sampler.  A path string is a sequence of characters, *)
(* a token a non-empty sequence of characters.  The characters modelled    *)
(* are letters other than e and E, digits, signs, spaces and commas, so    *)
(* the fraction and exponent parts of the number pattern never match.      *)
(* Coordinates are in units of 1/19^3, which holds every sampled point of  *)
(* a cubic Bezier between integer points exactly.                          *)
(***************************************************************************)
Letters == {"M", "L", "C", "Z", "z", "Q"}
Digits == {"0", "1", "2", "3", "4", "5", "6", "7", "8", "9"}
Signs == {"-", "+"}

DigitValue(c) ==
    CASE c = "0" -> 0 [] c = "1" -> 1 [] c = "2" -> 2 [] c = "3" -> 3
      [] c = "4" -> 4 [] c = "5" -> 5 [] c = "6" -> 6 [] c = "7" -> 7
      [] c = "8" -> 8 [] c = "9" -> 9

\* How many digits d holds from position i on
RECURSIVE DigitRun(_, _)
DigitRun(d, i) ==
    IF i <= Len(d) /\ d[i] \in Digits THEN 1 + DigitRun(d, i + 1) ELSE 0

\* re.findall(r'[a-zA-Z]|[-+]?\d*\.?\d+(?:[eE][-+]?\d+)?', d), from position i
RECURSIVE TokenizeFrom(_, _)
TokenizeFrom(d, i) ==
    IF i > Len(d) THEN <<>>
    ELSE IF d[i] \in Letters
         THEN <<<<d[i]>>>> \o TokenizeFrom(d, i + 1)
         ELSE LET sign == IF d[i] \in Signs THEN 1 ELSE 0
                  run == DigitRun(d, i + sign)
              IN  IF run > 0
                  THEN <<SubSeq(d, i, i + sign + run - 1)>>
                           \o TokenizeFrom(d, i + sign + run)
                  ELSE TokenizeFrom(d, i + 1)

tokenize_path(d) == TokenizeFrom(d, 1)

\* float(token) succeeds on a number token and raises ValueError on a letter
IsNumber(token) == token[1] \in Digits \cup Signs

RECURSIVE DigitsValue(_, _)
DigitsValue(token, n) ==
    IF n = 0 THEN 0
    ELSE 10 * DigitsValue(token, n - 1) + DigitValue(token[n])

float(token) ==
    IF token[1] = "-" THEN -DigitsValue(Tail(token), Len(token) - 1)
    ELSE IF token[1] = "+" THEN DigitsValue(Tail(token), Len(token) - 1)
    ELSE DigitsValue(token, Len(token))

\* steps=20 of sample_cubic_bezier
Steps == 20
CoordScale == (Steps - 1) * (Steps - 1) * (Steps - 1)
Coord(v) == v * CoordScale

\* One coordinate of the cubic Bezier at t = i/(steps-1), coordinates scaled
BezierAt(i, a0, a1, a2, a3) ==
    LET n == Steps - 1
        u == n - i
    IN  (u * u * u * a0 + 3 * u * u * i * a1 + 3 * u * i * i * a2 + i * i * i * a3)
            \div CoordScale

sample_cubic_bezier(p0, p1, p2, p3) ==
    [k \in 1 .. Steps |->
        <<BezierAt(k - 1, p0[1], p1[1], p2[1], p3[1]),
          BezierAt(k - 1, p0[2], p1[2], p2[2], p3[2])>>]

\* The state of the loop of parse_svg_paths_basic
ParseState(polys, poly, pos, start) ==
    [polygons |-> polys, current_poly |-> poly, current_pos |-> pos, start_pos |-> start]

ParseStart == ParseState(<<>>, <<>>, <<0, 0>>, <<0, 0>>)

\* The branch `if cmd == 'M'`
DoM(st, x, y) ==
    ParseState(IF Len(st.current_poly) > 0
               THEN Append(st.polygons, st.current_poly)
               ELSE st.polygons,
               <<<<Coord(x), Coord(y)>>>>, <<Coord(x), Coord(y)>>, <<Coord(x), Coord(y)>>)

\* The branch `elif cmd == 'L'`
DoL(st, x, y) ==
    ParseState(st.polygons, Append(st.current_poly, <<Coord(x), Coord(y)>>),
               <<Coord(x), Coord(y)>>, st.start_pos)

\* The branch `elif cmd == 'C'`
DoC(st, c1x, c1y, c2x, c2y, ex, ey) ==
    LET curve_points == sample_cubic_bezier(st.current_pos,
                                            <<Coord(c1x), Coord(c1y)>>,
                                            <<Coord(c2x), Coord(c2y)>>,
                                            <<Coord(ex), Coord(ey)>>)
    IN  ParseState(st.polygons, st.current_poly \o Tail(curve_points),
                   <<Coord(ex), Coord(ey)>>, st.start_pos)

\* DoZ closing the polygon at the current point
DoZAtCurrent(st) ==
    ParseState(st.polygons, Append(st.current_poly, st.current_pos),
               st.current_pos, st.start_pos)

\* The branch `elif cmd.upper() == 'Z'`
DoZ(st) ==
    ParseState(st.polygons, Append(st.current_poly, st.start_pos),
               st.start_pos, st.start_pos)

\* `except StopIteration`: the polygon in progress is flushed
Flush(st) ==
    IF Len(st.current_poly) > 0
    THEN [st EXCEPT !.polygons = Append(st.polygons, st.current_poly)]
    ELSE st

Upper(c) == IF c = "z" THEN "Z" ELSE c

\* How many numbers a branch reads with float(next(iterator))
Arity(cmd) ==
    IF cmd \in {<<"M">>, <<"L">>} THEN 2 ELSE IF cmd = <<"C">> THEN 6 ELSE 0

\* The k calls float(next(iterator)) from position i: how many succeed
RECURSIVE NumbersRead(_, _, _)
NumbersRead(toks, i, k) ==
    IF k = 0 \/ i > Len(toks) \/ ~IsNumber(toks[i]) THEN 0
    ELSE 1 + NumbersRead(toks, i + 1, k - 1)

\* One pass of the `while True` loop with the iterator at position i:
\* what happens, the position after it and the state after it.
Iteration(toks, i, st) ==
    IF i > Len(toks)
    THEN [does |-> "returned", next |-> i, st |-> Flush(st)]
    ELSE LET cmd == toks[i]
             k == Arity(cmd)
             got == NumbersRead(toks, i + 1, k)
             arg(j) == float(toks[i + j])
         IN  IF got < k
             THEN IF i + got + 1 > Len(toks)
                  THEN [does |-> "returned", next |-> i + got + 1, st |-> Flush(st)]
                  ELSE [does |-> "ValueError", next |-> i + got + 2, st |-> st]
             ELSE [does |-> "continue", next |-> i + k + 1,
                   st |-> IF cmd = <<"M">> THEN DoM(st, arg(1), arg(2))
                          ELSE IF cmd = <<"L">> THEN DoL(st, arg(1), arg(2))
                          ELSE IF cmd = <<"C">>
                               THEN DoC(st, arg(1), arg(2), arg(3), arg(4), arg(5), arg(6))
                          ELSE IF Len(cmd) = 1 /\ Upper(cmd[1]) = "Z" THEN DoZ(st)
                          ELSE st]

RECURSIVE ParseLoop(_, _, _)
ParseLoop(toks, i, st) ==
    LET it == Iteration(toks, i, st)
    IN  IF it.does = "continue"
        THEN ParseLoop(toks, it.next, it.st)
        ELSE [does |-> it.does, polygons |-> it.st.polygons]

\* parse_svg_paths_basic(d_str): how it ends and, when it returns, the polygons
parse_svg_paths_basic(d_str) == ParseLoop(tokenize_path(d_str), 1, ParseStart)

MisplacedLetters == {<<"L">>, <<"Q">>}
NumberTokens == {<<"0">>, <<"1">>}

\* What one pass of the loop may read when it starts with cmd: the command
\* and its numbers, fewer numbers when the input ends there, or numbers
\* followed by a letter where a number is due.
Reads(cmd) ==
    {<<cmd>> \o args : args \in SeqsUpTo(NumberTokens, Arity(cmd))}
        \cup {<<cmd>> \o args \o <<l>> :
                args \in SeqsUpTo(NumberTokens, Arity(cmd) - 1), l \in MisplacedLetters}

InitParse ==
    /\ comp = "parse"
    /\ pc = "running"
    /\ ParseIdle
    /\ SimplifyIdle
    /\ SymIdle
    /\ ExtractIdle

\* One pass of the loop that reads exactly `read`, the next tokens of d_str
Pass(read) ==
    /\ pc = "running"
    /\ Len(tokens) + Len(read) <= MaxTokens
    /\ LET toks == tokens \o read
           it == Iteration(toks, Len(tokens) + 1,
                           ParseState(polygons, current_poly, current_pos, start_pos))
       IN  /\ it.next = Len(toks) + 1
           /\ tokens' = toks
           /\ pc' = IF it.does = "continue" THEN "running" ELSE it.does
           /\ polygons' = it.st.polygons
           /\ current_poly' = it.st.current_poly
           /\ current_pos' = it.st.current_pos
           /\ start_pos' = it.st.start_pos
    /\ UNCHANGED <<comp, simplifyVars, symVars, extractVars>>

\* cmd == 'M'
ParseM ==
    /\ comp = "parse"
    /\ \E read \in Reads(<<"M">>) : Pass(read)

\* cmd == 'L'
ParseL ==
    /\ comp = "parse"
    /\ \E read \in Reads(<<"L">>) : Pass(read)

\* cmd == 'C'
ParseC ==
    /\ comp = "parse"
    /\ \E read \in Reads(<<"C">>) : Pass(read)

\* cmd.upper() == 'Z'
ParseZ ==
    /\ comp = "parse"
    /\ \E read \in {<<<<"Z">>>>, <<<<"z">>>>} : Pass(read)

\* no branch matches: an unsupported letter, or a number where a command is due
ParseOther ==
    /\ comp = "parse"
    /\ \E cmd \in {<<"Q">>, <<"1">>} : Pass(<<cmd>>)

\* next(iterator) raises StopIteration where a command is due
ParseEnd ==
    /\ comp = "parse"
    /\ Pass(<<>>)

NextParse == ParseM \/ ParseL \/ ParseC \/ ParseZ \/ ParseOther \/ ParseEnd

SpecParse == InitParse /\ [][NextParse]_vars

(***************************************************************************)
(* Path classifier.  The file is modelled from the matches of path_pattern *)
(* on: each match is its attribute dict, `fill` and `d`.  A dot is held in *)
(* quarter units, which holds (max+min)/2 and (w+h)/4 exactly.             *)
(***************************************************************************)
\* re.findall(r'[-+]?\d*\.\d+|[-+]?\d+', d) as floats, from position i
RECURSIVE CoordsFrom(_, _)
CoordsFrom(d, i) ==
    IF i > Len(d) THEN <<>>
    ELSE LET sign == IF d[i] \in Signs THEN 1 ELSE 0
             run == DigitRun(d, i + sign)
         IN  IF run > 0
             THEN <<float(SubSeq(d, i, i + sign + run - 1))>>
                      \o CoordsFrom(d, i + sign + run)
             ELSE CoordsFrom(d, i + 1)

\* coords[0::2] and coords[1::2]
EveryOther(coords, first) ==
    [k \in 1 .. (Len(coords) + 2 - first) \div 2 |-> coords[first + 2 * (k - 1)]]

Max(s) == CHOOSE x \in {s[i] : i \in 1 .. Len(s)} : \A i \in 1 .. Len(s) : s[i] <= x
Min(s) == CHOOSE x \in {s[i] : i \in 1 .. Len(s)} : \A i \in 1 .. Len(s) : x <= s[i]

\* attrs.get('fill', '').upper()
UpperFill(fill) == IF fill = "#13161b" THEN "#13161B" ELSE fill

\* The size bound of a dot, the width above which a path is dropped
DotSize == 30
FrameWidth == 900

\* a < b for fractions n/d with d > 0
Less(a, b) == a.n * b.d < b.n * a.d

\* IsDot with the interval closed at both ends
IsDotClosed(w, h) ==
    LET ratio == IF h # 0 THEN Frac(w, h) ELSE Frac(0, 1)
    IN  w < DotSize /\ h < DotSize /\ ~Less(ratio, Frac(1, 2)) /\ ~Less(Frac(2, 1), ratio)

\* ratio = w/h if h != 0 else 0;  w < 30 and h < 30 and 0.5 < ratio < 2.0
IsDot(w, h) ==
    LET ratio == IF h # 0 THEN Frac(w, h) ELSE Frac(0, 1)
    IN  w < DotSize /\ h < DotSize /\ Less(Frac(1, 2), ratio) /\ Less(ratio, Frac(2, 1))

\* The body of the loop over the matches, for one match: what it does to
\* dots and arrows, or the exception that ends the run.
ClassifyPath(a, ds, as) ==
    LET coords == CoordsFrom(a.d, 1)
        xs == EveryOther(coords, 1)
        ys == EveryOther(coords, 2)
    IN  IF Len(coords) = 0
        THEN [does |-> "continue", box |-> <<>>, dots |-> ds, arrows |-> as]
        ELSE IF Len(ys) = 0
        THEN [does |-> "ValueError", box |-> <<>>, dots |-> ds, arrows |-> as]
        ELSE LET w == Max(xs) - Min(xs)
                 h == Max(ys) - Min(ys)
                 dot == <<2 * (Max(xs) + Min(xs)), 2 * (Max(ys) + Min(ys)), w + h>>
                 b == [w |-> w, h |-> h, is_dot |-> IsDot(w, h)]
             IN  IF UpperFill(a.fill) = "#13161B" \/ w > FrameWidth
                 THEN [does |-> "continue", box |-> [w |-> w, h |-> h],
                       dots |-> ds, arrows |-> as]
                 ELSE IF IsDot(w, h)
                 THEN [does |-> "dot", box |-> b, dots |-> Append(ds, dot), arrows |-> as]
                 ELSE LET parsed_polys == parse_svg_paths_basic(a.d)
                      IN  IF parsed_polys.does = "ValueError"
                          THEN [does |-> "ValueError", box |-> b, dots |-> ds, arrows |-> as]
                          ELSE [does |-> "arrow", box |-> b, dots |-> ds,
                                arrows |-> as \o parsed_polys.polygons]

\* The decimal numeral of n >= 0, as characters
Numeral(n) ==
    LET digit(k) == CHOOSE c \in Digits : DigitValue(c) = k
    IN  IF n < 10 THEN <<digit(n)>>
        ELSE IF n < 100 THEN <<digit(n \div 10), digit(n % 10)>>
        ELSE <<digit(n \div 100), digit((n \div 10) % 10), digit(n % 10)>>

\* "Mx,y Lx+w,y+h Z"
BoxPath(x, y, w, h) ==
    <<"M">> \o Numeral(x) \o <<",">> \o Numeral(y) \o <<" ", "L">>
        \o Numeral(x + w) \o <<",">> \o Numeral(y + h) \o <<" ", "Z">>

Widths == {0, 10, 20, 30, 40, 900, 901}
Heights == {0, 10, 20, 22, 30}
PathData ==
    {BoxPath(4, 6, w, h) : w \in Widths, h \in Heights}
        \cup {<<>>, <<"M", "5">>, <<"M", "5", ",", "5", " ", "L", "7", " ", "Z">>}
Fills == {"#13161b", "#000000"}

InitExtract ==
    /\ comp = "extract"
    /\ pc = "scanning"
    /\ ExtractIdle
    /\ SimplifyIdle
    /\ SymIdle
    /\ ParseIdle

\* The loop body on the next match of path_pattern
ClassifyNextPath ==
    /\ comp = "extract" /\ pc = "scanning"
    /\ n_paths < MaxPaths
    /\ \E d \in PathData, fill \in Fills :
          LET a == [d |-> d, fill |-> fill]
              c == ClassifyPath(a, dots, arrows)
          IN  /\ attrs' = a
              /\ box' = c.box
              /\ dots' = c.dots
              /\ arrows' = c.arrows
              /\ pc' = IF c.does = "ValueError" THEN "ValueError" ELSE "scanning"
    /\ n_paths' = n_paths + 1
    /\ UNCHANGED <<comp, simplifyVars, symVars, parseVars>>

\* No match is left: return dots, arrows
ReturnDotsAndArrows ==
    /\ comp = "extract" /\ pc = "scanning"
    /\ pc' = "returned"
    /\ UNCHANGED <<comp, simplifyVars, symVars, parseVars, extractVars>>

NextExtract == ClassifyNextPath \/ ReturnDotsAndArrows

SpecExtract == InitExtract /\ [][NextExtract]_vars

(***************************************************************************)
(* The script as a whole: any one of its functions is exercised.           *)
(***************************************************************************)
Init == InitParse \/ InitExtract \/ InitSimplify \/ InitSymmetrize

Next == NextParse \/ NextExtract \/ NextSimplify \/ NextSymmetrize

Spec == Init /\ [][Next]_vars

(***************************************************************************)
(* Claims about the simplifier.                                            *)
(***************************************************************************)
RECURSIVE SortedSeq(_)
SortedSeq(S) ==
    IF S = {} THEN <<>>
    ELSE LET least == CHOOSE x \in S : \A y \in S : x <= y
         IN  <<least>> \o SortedSeq(S \ {least})

\* The ways `out` can be read as points of `inp` taken at strictly increasing
\* positions, the first and the last position of `inp` among them.
Keeps(inp, out) ==
    {idx \in {SortedSeq(S) : S \in {T \in SUBSET (1 .. Len(inp)) :
                                      1 \in T /\ Len(inp) \in T}} :
        /\ Len(idx) = Len(out)
        /\ \A j \in 1 .. Len(out) : out[j] = inp[idx[j]]}

WithinTolerance(inp, out, idx, eps) ==
    \A j \in 1 .. Len(out) - 1 :
        \A i \in idx[j] .. idx[j + 1] :
            ~Gt(perpendicular_distance(inp[i], out[j], out[j + 1]), OfNumber(eps))

C2_SimplifyIdempotent ==
    (comp = "simplify" /\ pc = "simplified2") => result2 = result

ConsecutiveFar(s) ==
    \A i \in 1 .. Len(s) - 1 : FartherThanDedup(s[i + 1], s[i])

\* C2 amended: ramer_douglas_peucker applied to its own result returns that
\* result, and so does simplify_points whenever every two consecutive points
\* of its first result are more than 0.5 apart.
C2_RdpIdempotent ==
    /\ (comp = "simplify" /\ pc = "rdp2") => result2 = result
    /\ (comp = "simplify" /\ pc = "simplified2" /\ ConsecutiveFar(result)) =>
            result2 = result

C2_Witness ==
    /\ comp = "simplify" /\ pc = "simplified2"
    /\ ConsecutiveFar(result)
    /\ Len(result) = 3 /\ Len(points) = 4 /\ Len(dedup) = 3

\* C8: the list handed to ramer_douglas_peucker begins with the first and
\* ends with the last point of the input of simplify_points.
C8_DedupKeepsEnds ==
    (comp = "simplify" /\ pc = "simplified") =>
        dedup[1] = points[1] /\ Last(dedup) = Last(points)

\* C10 as stated: for every non-empty input, ramer_douglas_peucker
\* returns input points taken at strictly increasing positions, from the
\* first to the last, so never more points than it was given.
C10_RdpSubsequence ==
    (comp = "simplify" /\ pc = "rdp") =>
        Keeps(points, result) # {} /\ Len(result) <= Len(points)

\* C10 amended: the same, for every input of at least two points; this
\* covers the call simplify_points makes whenever `dedup` has two points.
C10_RdpSubsequenceOfTwo ==
    /\ (comp = "simplify" /\ pc = "rdp" /\ Len(points) >= 2) =>
            Keeps(points, result) # {} /\ Len(result) <= Len(points)
    /\ (comp = "simplify" /\ pc = "simplified" /\ Len(dedup) >= 2) =>
            Keeps(dedup, result) # {} /\ Len(result) <= Len(dedup)

C10_Witness ==
    /\ comp = "simplify" /\ pc = "rdp"
    /\ Len(points) = 4 /\ Len(result) = 2 /\ points[2] # points[1]

(***************************************************************************)
(* Claims about the symmetry reconstructor.                                *)
(***************************************************************************)
Returned == comp = "symmetrize" /\ pc = "returned"

\* The first point of maximum x of a non-empty sequence
FirstMaxX(s) ==
    s[CHOOSE i \in 1 .. Len(s) :
          /\ \A j \in 1 .. Len(s) : s[j][1] <= s[i][1]
          /\ \A j \in 1 .. i - 1 : s[j][1] < s[i][1]]

MirrorSymmetric(f, tip) ==
    /\ f[1] = tip /\ f[Len(f)] = tip
    /\ \A i \in 1 .. Len(f) :
          /\ f[i][1] = f[Len(f) + 1 - i][1]
          /\ f[i][2] + f[Len(f) + 1 - i][2] = 2 * tip[2]
    /\ \A i \in 1 .. Len(f) :
          \E j \in 1 .. Len(f) : f[j] = <<f[i][1], 2 * tip[2] - f[i][2]>>

\* C3 as stated: whenever symmetrize_arrow collects a non-empty top arm,
\* what it returns starts and ends with the tip (the first point of maximum
\* x) and the points at positions i and n-1-i have equal x and y summing to
\* exactly 2*axis_y, so every point has its mirror partner in the result.
C3_MirrorSymmetric ==
    (Returned /\ sym_locals.returned = "mirrored") =>
        MirrorSymmetric(sym_final, FirstMaxX(sym_points))

\* The second half of f mirrors the first as the code computes the mirror.
MirrorAsComputed(f, tip) ==
    /\ f[1] = tip /\ f[Len(f)] = tip
    /\ \A i \in 1 .. (Len(f) + 1) \div 2 :
          /\ f[Len(f) + 1 - i][1] = f[i][1]
          /\ f[Len(f) + 1 - i][2] = Fl(2 * tip[2] - f[i][2])

\* C3 amended: the result starts and ends with the tip and, for every
\* position i of its first half (tip, top arm, notch), the point at position
\* n-1-i has the same x and the y that the subtraction 2*axis_y - y_i rounds
\* to; the two y sum to 2*axis_y up to that rounding only.
C3_MirrorAsComputed ==
    (Returned /\ sym_locals.returned = "mirrored") =>
        MirrorAsComputed(sym_final, FirstMaxX(sym_points))

C3_Witness ==
    /\ Returned /\ sym_locals.returned = "mirrored"
    /\ Len(sym_locals.top_points) = 3
    /\ Last(sym_locals.top_points)[2] # sym_locals.axis_y
    /\ sym_points \notin Chevrons
    /\ ~MirrorSymmetric(sym_final, sym_locals.tip)

\* C4 as stated: every perfectly symmetric chevron is returned unchanged.
C4_ChevronFixedPoint ==
    (Returned /\ sym_points \in Chevrons) => sym_final = sym_points

\* The notch of a chevron of 2m+3 points is at position m+2.
NotchPosition(s) == (Len(s) + 1) \div 2

\* A chevron without equal consecutive points whose first bottom-arm point,
\* the mirror of the last top-arm point, passes the test the walk stops on.
SteepChevron(s) ==
    /\ s \in Chevrons
    /\ Len(s) > 3 => s[NotchPosition(s) + 1][2] > Fl(s[1][2] + CrossTol)
    /\ \A i \in 1 .. Len(s) - 1 : s[i] # s[i + 1]

\* C4 amended: a perfectly symmetric chevron in which no two consecutive
\* points are equal and whose point after the notch (the mirror of the last
\* top-arm point), if it has a top arm, has y > tip.y + 0.1 is returned
\* unchanged.
C4_SteepChevronFixedPoint ==
    (Returned /\ SteepChevron(sym_points)) => sym_final = sym_points

C4_Witness ==
    /\ Returned /\ SteepChevron(sym_points)
    /\ Len(sym_points) = 7
    /\ sym_points[2][2] = sym_points[1][2] - CrossTol
    /\ sym_locals.forward_is_top
    /\ sym_locals.returned = "mirrored"

\* The points of `walk` up to, not including, the first one below the axis
\* by more than 0.1.
BeforeCross(walk, axis_y) ==
    SubSeq(walk, 1,
           CHOOSE k \in 0 .. Len(walk) :
               /\ \A j \in 1 .. k : walk[j][2] <= axis_y + 1
               /\ k < Len(walk) => walk[k + 1][2] > axis_y + 1)

\* C9: whichever direction is chosen, the top arm collected is the run of
\* consecutive points of the rotated sequence that starts with the tip's
\* immediate neighbour in that direction and ends before the first point
\* whose y exceeds the tip's by more than 0.1.
C9_WalkStartsAtNeighbour ==
    (Returned /\ sym_locals.returned # "empty") =>
        LET r == sym_locals.rotated
            a == sym_locals.axis_y
        IN  /\ sym_locals.forward_is_top =>
                  sym_locals.top_points = BeforeCross(SubSeq(r, 2, Len(r)), a)
            /\ (~sym_locals.forward_is_top /\ sym_locals.backward_is_top) =>
                  sym_locals.top_points = BeforeCross(Reverse(SubSeq(r, 2, Len(r))), a)

(***************************************************************************)
(* Claims about the path tokenizer and sampler.                            *)
(***************************************************************************)
IsLetterToken(token) == Len(token) = 1 /\ token[1] \in Letters

NumbersAfter(toks, i, k) ==
    /\ i + k <= Len(toks)
    /\ \A j \in 1 .. k : IsNumber(toks[i + j])

\* A letter other than M, L, C, Z, z, or an M, L or C followed by fewer
\* numbers than it requires
Malformed(toks) ==
    \E i \in 1 .. Len(toks) :
        /\ IsLetterToken(toks[i])
        /\ \/ toks[i][1] \notin {"M", "L", "C", "Z", "z"}
           \/ toks[i][1] \in {"M", "L"} /\ ~NumbersAfter(toks, i, 2)
           \/ toks[i][1] = "C" /\ ~NumbersAfter(toks, i, 6)

\* C5: on malformed path data parse_svg_paths_basic ends in an error and
\* does not return a polygon list.
C5_MalformedFails ==
    (comp = "parse" /\ pc # "running" /\ Malformed(tokens)) => pc # "returned"

\* Absolute M, L and Z/z commands, each with exactly its numbers, M first
WellFormedMLZ(toks) ==
    /\ Len(toks) > 0 /\ toks[1] = <<"M">>
    /\ \A i \in 1 .. Len(toks) :
          IsLetterToken(toks[i]) =>
              /\ toks[i][1] \in {"M", "L", "Z", "z"}
              /\ LET k == IF toks[i][1] \in {"M", "L"} THEN 2 ELSE 0
                 IN  /\ NumbersAfter(toks, i, k)
                     /\ i + k < Len(toks) => IsLetterToken(toks[i + k + 1])

PointAt(toks, i) == <<Coord(float(toks[i + 1])), Coord(float(toks[i + 2]))>>

\* One polygon per M: its point, then the point of every L and the M's own
\* point for every Z, up to the next M or the end of the input.
ExpectedPolygons(toks) ==
    LET ms == SortedSeq({i \in 1 .. Len(toks) : toks[i] = <<"M">>})
        until(j) == IF j < Len(ms) THEN ms[j + 1] - 1 ELSE Len(toks)
        cmds(j) == SortedSeq({i \in ms[j] + 1 .. until(j) : IsLetterToken(toks[i])})
    IN  [j \in 1 .. Len(ms) |->
            <<PointAt(toks, ms[j])>>
                \o [n \in 1 .. Len(cmds(j)) |->
                       IF toks[cmds(j)[n]] = <<"L">>
                       THEN PointAt(toks, cmds(j)[n])
                       ELSE PointAt(toks, ms[j])]]

\* "M0,0 L10,0 L10,10 Z"
ExamplePath ==
    <<"M", "0", ",", "0", " ", "L", "1", "0", ",", "0", " ",
      "L", "1", "0", ",", "1", "0", " ", "Z">>

\* C6: a well-formed path of absolute M, L and Z/z commands that begins
\* with M yields one polygon per M, in order: the M's point, then the point
\* of every L and the subpath start for every Z up to the next M or the end
\* of the input; "M0,0 L10,0 L10,10 Z" yields [(0,0),(10,0),(10,10),(0,0)].
C6_PolygonPerM ==
    /\ (comp = "parse" /\ pc = "returned" /\ WellFormedMLZ(tokens)) =>
            polygons = ExpectedPolygons(tokens)
    /\ parse_svg_paths_basic(ExamplePath) =
            [does |-> "returned",
             polygons |-> <<<<<<Coord(0), Coord(0)>>, <<Coord(10), Coord(0)>>,
                              <<Coord(10), Coord(10)>>, <<Coord(0), Coord(0)>>>>>>]

C6_Witness ==
    /\ comp = "parse" /\ pc = "returned" /\ WellFormedMLZ(tokens)
    /\ Len(polygons) = 2
    /\ \E i \in 1 .. Len(tokens) : tokens[i] = <<"Z">>
    /\ polygons[1] # polygons[2]

(***************************************************************************)
(* Claims about the path classifier.                                       *)
(***************************************************************************)
\* The match just classified is "Mx,y Lx+w,y+h Z" from (4,6) and passed the
\* background-fill and width-exclusion filters.
Classified(w, h) ==
    /\ comp = "extract" /\ n_paths > 0
    /\ attrs.d = BoxPath(4, 6, w, h)
    /\ UpperFill(attrs.fill) # "#13161B" /\ w <= FrameWidth

\* What the classifier holds once such a match is classified as `dot` says:
\* a dot (cx, cy, (w+h)/4) in quarter units, or an arrow fragment.
Recorded(w, h, dot) ==
    /\ box.w = w /\ box.h = h /\ box.is_dot = dot
    /\ IF dot
       THEN Len(dots) > 0 /\ Last(dots) = <<4 * 4 + 2 * w, 4 * 6 + 2 * h, w + h>>
       ELSE /\ Len(arrows) > 0
            /\ Last(arrows) = <<<<Coord(4), Coord(6)>>, <<Coord(4 + w), Coord(6 + h)>>,
                                <<Coord(4), Coord(6)>>>>

\* C7 as stated: a path that passes the filters is a dot, recorded as
\* (cx, cy, (w+h)/4), exactly when w < 30, h < 30 and 0.5 <= w/h <= 2.0;
\* otherwise it is an arrow fragment.
C7_DotClosedInterval ==
    \A w \in Widths, h \in Heights :
        Classified(w, h) =>
            Recorded(w, h, w < 30 /\ h < 30 /\ h # 0 /\ h <= 2 * w /\ w <= 2 * h)

\* C7 amended: the same with the aspect ratio strictly between 0.5 and 2.0.
C7_DotOpenInterval ==
    \A w \in Widths, h \in Heights :
        Classified(w, h) =>
            Recorded(w, h, w < 30 /\ h < 30 /\ h # 0 /\ h < 2 * w /\ w < 2 * h)

C7_Witness ==
    /\ Classified(20, 22)
    /\ box.is_dot
    /\ Last(dots) = <<56, 68, 42>>
    /\ n_paths = 2 /\ Len(arrows) = 1

====
